---------------------------- MODULE Spec2Model ----------------------------
(***************************************************************************)
(* A model of the scrappy Python package (python/scrappy/__init__.py):     *)
(* the state-space table, the RawTable window operations, the lifetime of  *)
(* ScrappyMatrix objects and their views, the reference CRF decoder, the   *)
(* banding front end of map_post_to_sequence and the batch entry point.    *)
(* Each part has its own specification over the shared variables; the      *)
(* parts it does not use stay at their idle values.                        *)
(***************************************************************************)
EXTENDS Integers, Sequences, FiniteSets, TLC

VARIABLES
    \* _gsp: the table under construction and one lookup
    gsp_pc, gsp_i, state_lookup, gsp_nstate, gsp_ret,
    \* RawTable: the raw_table struct with its samples, the last operation,
    \* whether it repeated the one before, the table before it, the count
    rt, raw_op, raw_same, raw_before, raw_nops,
    \* ScrappyMatrix: the Python objects, the native buffers, the frame of a
    \* running basecall_raw and the outcome of the last slice
    objs, bufs, bc, slice_res,
    \* basecall_raw_python: where it is, the native transition matrix, its
    \* numpy copy, the result of the native and of the Python decoder
    crf_pc, crf_post, crf_np, crf_c, crf_py,
    \* crfpath_to_basecall: a path and the basecall made from it
    cp_path, cp_call,
    \* map_post_to_sequence: where the call is, its arguments, the local
    \* `bands`, the library routines called so far, and how the call ended
    map_pc, map_args, map_bands, map_trace, map_res,
    \* the path the Viterbi aligner finds for the call, and path_data
    map_best, path_data,
    \* _basecall: the reads given, the mode, where the entry point is, the
    \* read it is at, the futures of the pool, the reads printed so far
    \* and how the batch ended
    reads, threads, bt_pc, bt_next, futures, printed, bt_err,
    \* a call of an operation that calls the library: the operation, where it
    \* is, the step it is at, what the last library call returned, the
    \* library calls that returned NULL, the pointers wrapped in a
    \* ScrappyMatrix, the functions handed a NULL matrix, and how it ended
    nl_op, nl_pc, nl_step, nl_ptr, nl_nulls, nl_wrapped, nl_nulluse, nl_res,
    \* ScrappyMatrixView.__init__: the object sliced, the slice, how the
    \* constructor ended and the view it made
    vw_parent, vw_slice, vw_res, vw_view,
    \* the diagonal band of a scalar: the scalar, the blocks and the
    \* sequence length, and the band made of them
    dg_args, dg_band

gspVars == <<gsp_pc, gsp_i, state_lookup, gsp_nstate, gsp_ret>>

rawVars == <<rt, raw_op, raw_same, raw_before, raw_nops>>

matVars == <<objs, bufs, bc, slice_res>>

crfVars == <<crf_pc, crf_post, crf_np, crf_c, crf_py>>

cpVars == <<cp_path, cp_call>>

mapVars ==
    <<map_pc, map_args, map_bands, map_trace, map_res, map_best, path_data>>

btVars == <<reads, threads, bt_pc, bt_next, futures, printed, bt_err>>

nlVars ==
    <<nl_op, nl_pc, nl_step, nl_ptr, nl_nulls, nl_wrapped, nl_nulluse, nl_res>>

vwVars == <<vw_parent, vw_slice, vw_res, vw_view>>

dgVars == <<dg_args, dg_band>>

vars ==
    <<gspVars, rawVars, matVars, crfVars, cpVars, mapVars, btVars, nlVars,
      vwVars, dgVars>>

\* what the actions of one part leave alone
notGsp ==
    <<rawVars, matVars, crfVars, cpVars, mapVars, btVars, nlVars,
      vwVars, dgVars>>

notRaw ==
    <<gspVars, matVars, crfVars, cpVars, mapVars, btVars, nlVars,
      vwVars, dgVars>>

notMat ==
    <<gspVars, rawVars, crfVars, cpVars, mapVars, btVars, nlVars,
      vwVars, dgVars>>

notCrf ==
    <<gspVars, rawVars, matVars, cpVars, mapVars, btVars, nlVars,
      vwVars, dgVars>>

notCp ==
    <<gspVars, rawVars, matVars, crfVars, mapVars, btVars, nlVars,
      vwVars, dgVars>>

notMap ==
    <<gspVars, rawVars, matVars, crfVars, cpVars, btVars, nlVars,
      vwVars, dgVars>>

notBt ==
    <<gspVars, rawVars, matVars, crfVars, cpVars, mapVars, nlVars,
      vwVars, dgVars>>

notNl ==
    <<gspVars, rawVars, matVars, crfVars, cpVars, mapVars, btVars, vwVars,
      dgVars>>

notVw ==
    <<gspVars, rawVars, matVars, crfVars, cpVars, mapVars, btVars, nlVars,
      dgVars>>

notDg ==
    <<gspVars, rawVars, matVars, crfVars, cpVars, mapVars, btVars, nlVars,
      vwVars>>

(***************************************************************************)
(* Helpers                                                                 *)
(***************************************************************************)
Range(s) == {s[i] : i \in DOMAIN s}

Max2(a, b) == IF a >= b THEN a ELSE b

Min2(a, b) == IF a <= b THEN a ELSE b

Abs(x) == IF x < 0 THEN -x ELSE x

(***************************************************************************)
(* _gsp / guess_state_properties                                           *)
(***************************************************************************)
\* the probed state counts run over 0..MaxProbe and the neighbours of a^k
MaxProbe == 40

alpha_lo == 4

alpha_hi_excl == 8

kmer_lo == 1

kmer_hi_excl == 10

alpha_len_wide == 2 .. (alpha_hi_excl - 1)

\* range(4,8)
alpha_len == alpha_lo .. (alpha_hi_excl - 1)

\* range(1,10)
kmer_len == kmer_lo .. (kmer_hi_excl - 1)

\* itertools.product(alpha_len, kmer_len) as a list: a is the outer loop
pairs ==
    [i \in 1 .. (Cardinality(alpha_len) * Cardinality(kmer_len)) |->
        LET na == Cardinality(kmer_len)
            amin == CHOOSE a \in alpha_len : \A b \in alpha_len : a <= b
        IN  << amin + ((i - 1) \div na), kmer_lo + ((i - 1) % na) >>]

\* one step of the dict comprehension {a**k: (a, k)}: a later pair with the
\* same key replaces the earlier one
DictInsert(d, p) ==
    LET key == p[1] ^ p[2]
    IN  [x \in (DOMAIN d) \cup {key} |-> IF x = key THEN p ELSE d[x]]

nkmers_no_stay(nstate) == nstate

\* nkmers = nstate - 1  # for stay
nkmers(nstate) == nstate - 1

\* state_lookup[nkmers]: a missing key raises KeyError
guess_state_properties(table, nstate) ==
    IF nkmers(nstate) \in DOMAIN table
        THEN table[nkmers(nstate)]
        ELSE "KeyError"

EmptyDict == [x \in {} |-> <<0, 0>>]

GspIdle ==
    /\ gsp_pc = "idle"
    /\ gsp_i = 0
    /\ state_lookup = EmptyDict
    /\ gsp_nstate = -1
    /\ gsp_ret = "none"

GspInit ==
    /\ gsp_pc = "build"
    /\ gsp_i = 1
    /\ state_lookup = EmptyDict
    /\ gsp_nstate = -1
    /\ gsp_ret = "none"

\* the state counts a caller may pass
ProbeStates ==
    (0 .. MaxProbe) \cup
    {(a ^ k) + d : a \in 4 .. 7, k \in 1 .. 9, d \in 0 .. 2}

GspInsert ==
    /\ gsp_pc = "build"
    /\ gsp_i <= Len(pairs)
    /\ state_lookup' = DictInsert(state_lookup, pairs[gsp_i])
    /\ gsp_i' = gsp_i + 1
    /\ UNCHANGED <<gsp_pc, gsp_nstate, gsp_ret>>
    /\ UNCHANGED notGsp

\* assert len(state_lookup) == len(pairs)
GspAssert ==
    /\ gsp_pc = "build"
    /\ gsp_i > Len(pairs)
    /\ gsp_pc' = IF Cardinality(DOMAIN state_lookup) = Len(pairs)
                    THEN "ready" ELSE "AssertionError"
    /\ UNCHANGED <<gsp_i, state_lookup, gsp_nstate, gsp_ret>>
    /\ UNCHANGED notGsp

GspCall ==
    /\ gsp_pc = "ready"
    /\ \E n \in ProbeStates :
        /\ gsp_nstate' = n
        /\ gsp_ret' = guess_state_properties(state_lookup, n)
    /\ UNCHANGED <<gsp_pc, gsp_i, state_lookup>>
    /\ UNCHANGED notGsp

GspNext == GspInsert \/ GspAssert \/ GspCall


(***************************************************************************)
(* RawTable, _trim_raw, _scale_raw                                         *)
(***************************************************************************)
\* samples per table, sample values, guards and operations per run
MaxN == 4

MaxSample == 1

MaxGuard == 1

MaxRawOps == 2

\* samples per table where a trim is repeated
MaxRetrimN == 6

\* varseg_chunk values tried
ChunkSizes == {2, 3}

\* varseg_thresh values tried: the quantiles 0 (minimum) and 1 (maximum)
ThreshQuantiles == {0, 1}

\* samples are held in fixed point, SampleUnit units to 1.0
SampleUnit == 10

\* the robustness constant k = MadScaleNum / MadScaleDen
MadScaleNum == 14826

MadScaleDen == 10000

\* what a division by a zero MAD leaves in a sample (an infinity)
SatValue == 1000

\* the k-th smallest element of a non-empty sequence (k in 1..Len(s))
KthSmallest(s, k) ==
    CHOOSE v \in Range(s) :
        /\ Cardinality({i \in DOMAIN s : s[i] < v}) < k
        /\ Cardinality({i \in DOMAIN s : s[i] <= v}) >= k

\* twice the median of a non-empty sequence
Median2(s) ==
    LET n == Len(s)
    IN  IF n % 2 = 1
            THEN 2 * KthSmallest(s, (n + 1) \div 2)
            ELSE KthSmallest(s, n \div 2) + KthSmallest(s, (n \div 2) + 1)

\* four times the median absolute deviation of a non-empty sequence
Mad4(s) == Median2([i \in DOMAIN s |-> Abs((2 * s[i]) - Median2(s))])

\* the division x / y truncated towards zero (y > 0)
TruncDiv(x, y) == IF x >= 0 THEN x \div y ELSE -((-x) \div y)

\* (x - median) / (k * MAD) for every sample of the segment
medmad_normalise_array(seg) ==
    IF Len(seg) = 0 THEN seg
    ELSE LET med2 == Median2(seg)
             mad4 == Mad4(seg)
         IN  [i \in DOMAIN seg |->
                LET num == (2 * seg[i]) - med2
                IN  IF mad4 = 0
                        THEN (IF num = 0 THEN 0
                              ELSE IF num > 0 THEN SatValue ELSE -SatValue)
                        ELSE TruncDiv(2 * MadScaleDen * SampleUnit * num,
                                      MadScaleNum * mad4)]

\* the MAD of each whole chunk of the window
MadArr(r, chunk) ==
    [c \in 1 .. ((r.end - r.start) \div chunk) |->
        Mad4(SubSeq(r.raw, r.start + ((c - 1) * chunk) + 1,
                    r.start + (c * chunk)))]

\* the threshold: the given quantile of the chunk MADs
MadThreshold(madarr, q) ==
    IF q = 0 THEN KthSmallest(madarr, 1) ELSE KthSmallest(madarr, Len(madarr))

\* trim_raw_by_mad: the window loses its leading and its trailing chunks
\* whose MAD does not exceed the threshold, and its last partial chunk
trim_raw_by_mad(r, chunk, q) ==
    LET madarr == MadArr(r, chunk)
        nchunk == Len(madarr)
    IN  IF nchunk = 0 THEN [r EXCEPT !.end = r.start]
        ELSE LET th == MadThreshold(madarr, q)
                 above == {c \in 1 .. nchunk : madarr[c] > th}
                 lead == IF above = {} THEN nchunk
                         ELSE (CHOOSE c \in above : \A d \in above : c <= d) - 1
                 last == IF above = {} THEN 0
                         ELSE CHOOSE c \in above : \A d \in above : c >= d
             IN  [r EXCEPT !.start = r.start + (lead * chunk),
                           !.end = r.start + (last * chunk)]

\* lines 127-128: the guards
TrimGuards(r, start, end) ==
    [r EXCEPT !.start = IF (r.n - r.start) > start THEN r.start + start ELSE r.n,
              !.end = IF r.end > end THEN r.end - end ELSE 0]

TrimCollapse_never(r) == r

TrimCollapse_strict(r) ==
    IF r.start > r.end THEN [r EXCEPT !.start = 0, !.end = 0] ELSE r

\* lines 129-130: an empty or inverted window becomes (0,0)
TrimCollapse(r) ==
    IF r.start >= r.end THEN [r EXCEPT !.start = 0, !.end = 0] ELSE r

_trim_raw(r, start, end, varseg_chunk, varseg_thresh) ==
    TrimCollapse(TrimGuards(trim_raw_by_mad(r, varseg_chunk, varseg_thresh),
                            start, end))

\* the samples with the segment of length len at offset off normalised
NormaliseAt(raw, off, len) ==
    LET out == medmad_normalise_array(SubSeq(raw, off + 1, off + len))
    IN  [i \in DOMAIN raw |->
            IF i > off /\ i <= off + len THEN out[i - off] ELSE raw[i]]

ScaleLength_end(r) == Min2(r.end, r.n - r.start)

\* rt.end - rt.start
ScaleLength(r) == r.end - r.start

\* lib.medmad_normalise_array(rt.raw + rt.start, rt.end - rt.start)
_scale_raw(r) == [r EXCEPT !.raw = NormaliseAt(r.raw, r.start, ScaleLength(r))]

NoOp == [op |-> "none", start |-> 0, end |-> 0, chunk |-> 0, thresh |-> 0]

EmptyTable == [n |-> 0, start |-> 0, end |-> 0, raw |-> << >>]

RawIdle ==
    /\ rt = EmptyTable
    /\ raw_op = NoOp
    /\ raw_same = FALSE
    /\ raw_before = EmptyTable
    /\ raw_nops = 0

\* RawTable(data, start, end) with a valid window
RawInit ==
    /\ \E n \in 0 .. MaxN :
       \E data \in [1 .. n -> 0 .. MaxSample] :
       \E s \in 0 .. n :
       \E e \in s .. n :
          rt = [n |-> n, start |-> s, end |-> e, raw |-> data]
    /\ raw_op = NoOp
    /\ raw_same = FALSE
    /\ raw_before = EmptyTable
    /\ raw_nops = 0

RawApply(op, r) ==
    /\ rt' = r
    /\ raw_op' = op
    /\ raw_same' = (op = raw_op)
    /\ raw_before' = rt
    /\ raw_nops' = raw_nops + 1
    /\ UNCHANGED notRaw

TrimOp(s, e, c, q) ==
    [op |-> "trim", start |-> s, end |-> e, chunk |-> c, thresh |-> q]

\* RawTable.trim
Trim ==
    /\ raw_nops < MaxRawOps
    /\ \E s \in 0 .. MaxGuard, e \in 0 .. MaxGuard,
          c \in ChunkSizes, q \in ThreshQuantiles :
            RawApply(TrimOp(s, e, c, q), _trim_raw(rt, s, e, c, q))

\* RawTable.scale
Scale ==
    /\ raw_nops < MaxRawOps
    /\ RawApply([op |-> "scale", start |-> 0, end |-> 0, chunk |-> 0,
                 thresh |-> 0],
                _scale_raw(rt))

RawNext == Trim \/ Scale

\* RawTable(data): the window is the whole table
RetrimInit ==
    /\ \E n \in 0 .. MaxRetrimN :
       \E data \in [1 .. n -> 0 .. MaxSample] :
          rt = [n |-> n, start |-> 0, end |-> n, raw |-> data]
    /\ raw_op = NoOp
    /\ raw_same = FALSE
    /\ raw_before = EmptyTable
    /\ raw_nops = 0

\* the first trim of a table
TrimFirst ==
    /\ raw_nops = 0
    /\ \E s \in 0 .. MaxGuard, e \in 0 .. MaxGuard,
          c \in ChunkSizes, q \in ThreshQuantiles :
            RawApply(TrimOp(s, e, c, q), _trim_raw(rt, s, e, c, q))

\* the same trim once more, argument for argument
TrimAgain ==
    /\ raw_nops = 1
    /\ raw_op.op = "trim"
    /\ RawApply(raw_op, _trim_raw(rt, raw_op.start, raw_op.end, raw_op.chunk,
                                  raw_op.thresh))

RetrimNext == TrimFirst \/ TrimAgain

(***************************************************************************)
(* ScrappyMatrix, ScrappyMatrixView, the matrices of basecall_raw          *)
(***************************************************************************)
\* Python objects, native buffers and columns (blocks) per matrix
MaxObj == 3

MaxBuf == 3

MaxCols == 1

\* an optional value: None is << >>, the value x is <<x>>
Opt(S) == {<< >>} \cup {<<x>> : x \in S}

NoObj == [kind |-> "none", live |-> FALSE, buf |-> 0, off |-> 0, nc |-> 0]

\* an object that has been collected
GoneObj == [kind |-> "gone", live |-> FALSE, buf |-> 0, off |-> 0, nc |-> 0]

NoBuf == [state |-> "unalloc", role |-> "none", frees |-> 0, freed_by |-> {}]

NoFrame == [pc |-> "idle", post |-> 0, base |-> 0, probs |-> FALSE]

MatIdle ==
    /\ objs = [o \in 1 .. MaxObj |-> NoObj]
    /\ bufs = [b \in 1 .. MaxBuf |-> NoBuf]
    /\ bc = NoFrame
    /\ slice_res = "none"

MatInit == MatIdle

FreeObjs == {o \in 1 .. MaxObj : objs[o].kind = "none"}

FreeBufs == {b \in 1 .. MaxBuf : bufs[b].state = "unalloc"}

\* the first unused object slot and buffer
NewObj == CHOOSE o \in FreeObjs : \A p \in FreeObjs : o <= p

NewBuf == CHOOSE b \in FreeBufs : \A c \in FreeBufs : b <= c

\* the library hands out a new matrix (mat_from_array, a network, a
\* squiggle model, posterior_crf)
Alloc(bs, b, role) ==
    [bs EXCEPT ![b] = [state |-> "live", role |-> role, frees |-> 0,
                       freed_by |-> {}]]

\* lib.free_scrappie_matrix(matrix)
_free_matrix(bs, b, who) ==
    [bs EXCEPT ![b].state = "freed",
               ![b].frees = Min2(bs[b].frees + 1, 2),
               ![b].freed_by = bs[b].freed_by \cup {who}]

\* ScrappyMatrix.__del__
MatrixDel(bs, b) == _free_matrix(bs, b, "ScrappyMatrix.__del__")

ViewDel_inherited(bs, b) == _free_matrix(bs, b, "ScrappyMatrixView.__del__")

\* ScrappyMatrixView.__del__: pass
ViewDel(bs, b) == bs

\* ScrappyMatrix(ndarray) and ScrappyMatrix(pointer): the object owns the
\* matrix the library has just returned
Construct(nc) ==
    /\ FreeObjs # {}
    /\ FreeBufs # {}
    /\ bufs' = Alloc(bufs, NewBuf, "matrix")
    /\ objs' = [objs EXCEPT ![NewObj] =
                  [kind |-> "matrix", live |-> TRUE, buf |-> NewBuf,
                   off |-> 0, nc |-> nc]]
    /\ UNCHANGED <<bc, slice_res>>
    /\ UNCHANGED notMat

\* ScrappyMatrix(numpy_array), through lib.mat_from_array
NewFromArray == \E nc \in 1 .. MaxCols : Construct(nc)

\* ScrappyMatrix(pointer), as calc_post and sequence_to_squiggle do with the
\* matrix a network or a squiggle model returns
NewFromPointer == \E nc \in 1 .. MaxCols : Construct(nc)

\* the checks of ScrappyMatrixView.__init__, in their order
SliceCheck(n_elems, sl) ==
    LET start == IF sl.start = << >> THEN 0 ELSE sl.start[1]
        stop == IF sl.stop = << >> THEN n_elems ELSE sl.stop[1]
    IN  IF sl.step # << >> /\ sl.step # <<1>> THEN "ValueError"
        ELSE IF start > stop THEN "IndexError"
        ELSE IF start > n_elems THEN "IndexError"
        ELSE IF stop > n_elems THEN "IndexError"
        ELSE "ok"

\* the view: the parent's fields copied, the data pointer moved by start
\* columns, nc = stop - start; the parent object itself is not kept
ViewOf(parent, sl) ==
    LET start == IF sl.start = << >> THEN 0 ELSE sl.start[1]
        stop == IF sl.stop = << >> THEN parent.nc ELSE sl.stop[1]
    IN  [kind |-> "view", live |-> TRUE, buf |-> parent.buf,
         off |-> parent.off + start, nc |-> stop - start]

Slices ==
    [start : Opt(-1 .. (MaxCols + 1)), stop : Opt(-1 .. (MaxCols + 1)),
     step : Opt({1, 2})]

\* ScrappyMatrix.__getitem__ on a matrix or on a view
Slice ==
    \E o \in 1 .. MaxObj, sl \in Slices :
        /\ objs[o].live
        /\ FreeObjs # {}
        /\ slice_res' = SliceCheck(objs[o].nc, sl)
        /\ objs' = IF SliceCheck(objs[o].nc, sl) = "ok"
                      THEN [objs EXCEPT ![NewObj] = ViewOf(objs[o], sl)]
                      ELSE objs
        /\ UNCHANGED <<bufs, bc>>
        /\ UNCHANGED notMat

\* what the collection of object o does to the buffers
Del(bs, o) ==
    IF objs[o].kind = "view" THEN ViewDel(bs, objs[o].buf)
    ELSE MatrixDel(bs, objs[o].buf)

\* the last reference to an object held by the caller goes away and the
\* object is collected
Dispose ==
    \E o \in 1 .. MaxObj :
        /\ objs[o].live
        /\ o # bc.post
        /\ objs' = [objs EXCEPT ![o] = GoneObj]
        /\ bufs' = Del(bufs, o)
        /\ UNCHANGED <<bc, slice_res>>
        /\ UNCHANGED notMat

\* basecall_raw up to and including decode_post: post = calc_post(...)
BcCall ==
    \E nc \in 1 .. MaxCols, wbp \in BOOLEAN :
        /\ bc.pc = "idle"
        /\ FreeObjs # {}
        /\ FreeBufs # {}
        /\ bufs' = Alloc(bufs, NewBuf, "matrix")
        /\ objs' = [objs EXCEPT ![NewObj] =
                      [kind |-> "matrix", live |-> TRUE, buf |-> NewBuf,
                       off |-> 0, nc |-> nc]]
        /\ bc' = [pc |-> "decoded", post |-> NewObj, base |-> 0,
                  probs |-> wbp]
        /\ UNCHANGED slice_res
        /\ UNCHANGED notMat

\* base_post = lib.posterior_crf(post.data())
BcPosterior ==
    /\ bc.pc = "decoded"
    /\ bc.probs
    /\ FreeBufs # {}
    /\ bufs' = Alloc(bufs, NewBuf, "temporary")
    /\ bc' = [bc EXCEPT !.pc = "base", !.base = NewBuf]
    /\ UNCHANGED <<objs, slice_res>>
    /\ UNCHANGED notMat

\* base_probs = _scrappie_to_numpy(base_post); _free_matrix(base_post)
BcFreeBase ==
    /\ bc.pc = "base"
    /\ bufs' = _free_matrix(bufs, bc.base, "basecall_raw")
    /\ bc' = [bc EXCEPT !.pc = "done"]
    /\ UNCHANGED <<objs, slice_res>>
    /\ UNCHANGED notMat

\* calc_post has returned and a later call raises: the frame is unwound and
\* the local post is collected
BcRaise ==
    /\ bc.pc = "decoded"
    /\ objs' = [objs EXCEPT ![bc.post] = GoneObj]
    /\ bufs' = Del(bufs, bc.post)
    /\ bc' = NoFrame
    /\ UNCHANGED slice_res
    /\ UNCHANGED notMat

\* return: the local post is collected
BcReturn ==
    /\ bc.pc = (IF bc.probs THEN "done" ELSE "decoded")
    /\ objs' = [objs EXCEPT ![bc.post] = GoneObj]
    /\ bufs' = Del(bufs, bc.post)
    /\ bc' = NoFrame
    /\ UNCHANGED slice_res
    /\ UNCHANGED notMat

MatNext ==
    \/ NewFromArray
    \/ NewFromPointer
    \/ Slice
    \/ Dispose
    \/ BcCall
    \/ BcPosterior
    \/ BcFreeBase
    \/ BcRaise
    \/ BcReturn

(***************************************************************************)
(* crfpath_to_basecall, decode_post_python, _scrappie_to_numpy             *)
(***************************************************************************)
\* blocks per transition matrix and entries per path
MaxBlk == 2

MaxPathLen == 4

\* vsize = 4  # SSE vector length
vsize == 4

\* nstate = 5
nstate == 5

\* NBASE = 4
NBASE == 4

\* what the padding of a native column holds
PadValue == 77

\* the values of the one entry of a block that is not zero, and the states
\* (A, G and the blank) that entry is a move between
ScoreVals == {-1, 1}

ScoreStates == {0, 2, 4}

base_lookup == <<"A", "C", "G", "T">>

RECURSIVE Tabulate(_, _)
\* the first n values of f, as a sequence
Tabulate(f, n) == IF n = 0 THEN << >> ELSE Append(Tabulate(f, n - 1), f[n])

Merge(call, b) ==
    IF Len(call) > 0 /\ call[Len(call)] = base_lookup[b + 1] THEN call
    ELSE Append(call, base_lookup[b + 1])

\* basecall.append(base_lookup[b])
AppendBase(call, b) == Append(call, base_lookup[b + 1])

RECURSIVE PathLoop(_, _, _)
\* for b in path: if b < NBASE: basecall.append(base_lookup[b])
PathLoop(path, i, call) ==
    IF i > Len(path) THEN call
    ELSE PathLoop(path, i + 1,
                  IF path[i] < NBASE THEN AppendBase(call, path[i]) ELSE call)

crfpath_to_basecall(path) == PathLoop(path, 1, << >>)

\* rows of a native matrix: nr, and nrq vectors of vsize floats per column
nr == nstate * nstate

nrq == (nr + vsize - 1) \div vsize

\* one column of a native matrix: the scores, entry to * nstate + from for
\* the move from -> to, then the padding
NativeColumn(pos, val) ==
    [j \in 1 .. (vsize * nrq) |->
        IF j > nr THEN PadValue ELSE IF j = pos + 1 THEN val ELSE 0]

\* _scrappie_to_numpy: the padding is cut off and, for sloika, the last
\* column (the stay state) is moved to the front
_scrappie_to_numpy(matrix, sloika) ==
    [blk \in DOMAIN matrix |->
        LET row == SubSeq(matrix[blk], 1, nr)
        IN  IF sloika THEN <<row[nr]>> \o SubSeq(row, 1, nr - 1) ELSE row]

idx_identity == [j \in 1 .. nr |-> j - 1]

\* idx = list(range(1,25))+[0]
idx == [j \in 1 .. nr |-> IF j < nr THEN j ELSE 0]

\* post_reordered = post[:,idx]
post_reordered(post) ==
    [blk \in DOMAIN post |->
        Tabulate([j \in 1 .. nr |-> post[blk][idx[j] + 1]], nr)]

\* post_sq[blk][st1][st2]
post_sq(reordered, blk, st1, st2) == reordered[blk][(st1 * nstate) + st2 + 1]

RECURSIVE PyFromLoop(_, _, _, _, _, _, _)
\* for st2 in range(1,nstate): the running best and its from-state
PyFromLoop(re, prev, blk, st1, st2, best, arg) ==
    IF st2 >= nstate THEN <<best, arg>>
    ELSE LET score == post_sq(re, blk, st1, st2) + prev[st2 + 1]
         IN  IF score > best
                THEN PyFromLoop(re, prev, blk, st1, st2 + 1, score, st2)
                ELSE PyFromLoop(re, prev, blk, st1, st2 + 1, best, arg)

RECURSIVE PyForward(_, _, _, _)
\* the forwards pass: curr after the last block and the traceback rows
PyForward(re, blk, curr, traceback) ==
    IF blk > Len(re) THEN [curr |-> curr, traceback |-> traceback]
    ELSE LET prev == curr
             cell == Tabulate([st1 \in 1 .. nstate |->
                        PyFromLoop(re, prev, blk, st1 - 1, 1,
                                   post_sq(re, blk, st1 - 1, 0) + prev[1], 0)],
                              nstate)
         IN  PyForward(re, blk + 1,
                       Tabulate([st1 \in 1 .. nstate |-> cell[st1][1]],
                                nstate),
                       Append(traceback,
                              Tabulate([st1 \in 1 .. nstate |-> cell[st1][2]],
                                       nstate)))

\* np.argmax: the first index of the maximum
argmax(v) ==
    CHOOSE i \in 0 .. (Len(v) - 1) :
        /\ \A j \in DOMAIN v : v[j] <= v[i + 1]
        /\ \A j \in 1 .. i : v[j] < v[i + 1]

RECURSIVE PyTraceback(_, _, _)
\* for blk in range(nblk,0,-1): path[blk-1] = traceback[blk-1][path[blk]]
PyTraceback(traceback, blk, path) ==
    IF blk = 0 THEN path
    ELSE PyTraceback(traceback, blk - 1,
                     <<traceback[blk][path[1] + 1]>> \o path)

\* decode_post_python: the path without its last entry, and the basecall
decode_post_python(post) ==
    LET re == post_reordered(post)
        nblk == Len(post)
        fw == PyForward(re, 1, [s \in 1 .. nstate |-> 0], << >>)
        full == PyTraceback(fw.traceback, nblk, <<argmax(fw.curr)>>)
        path == SubSeq(full, 1, nblk)
    IN  [curr |-> fw.curr, full |-> full, path |-> path,
         call |-> crfpath_to_basecall(path)]

\* the primary decoder lib.decode_crf on the native matrix:
\* curr[to] = max over from of (score[to][from] + prev[from]), the
\* backpointer the lowest from-state that attains it
CrfScore(matrix, blk, to, from) == matrix[blk][(to * nstate) + from + 1]

RECURSIVE CrfCurr(_, _)
CrfCurr(matrix, blk) ==
    IF blk = 0 THEN [s \in 1 .. nstate |-> 0]
    ELSE LET prev == CrfCurr(matrix, blk - 1)
         IN  Tabulate([to \in 1 .. nstate |->
                LET cand == {CrfScore(matrix, blk, to - 1, f) + prev[f + 1] :
                                f \in 0 .. (nstate - 1)}
                IN  CHOOSE x \in cand : \A y \in cand : y <= x], nstate)

CrfBack(matrix, blk, to) ==
    LET prev == CrfCurr(matrix, blk - 1)
        curr == CrfCurr(matrix, blk)
        best == {f \in 0 .. (nstate - 1) :
                    CrfScore(matrix, blk, to, f) + prev[f + 1] = curr[to + 1]}
    IN  CHOOSE f \in best : \A g \in best : f <= g

RECURSIVE CrfPath(_, _, _)
CrfPath(matrix, blk, path) ==
    IF blk = 0 THEN path
    ELSE CrfPath(matrix, blk - 1, <<CrfBack(matrix, blk, path[1])>> \o path)

\* lib.decode_crf(post.data(), path): path has nblock + 1 entries
decode_crf(matrix) ==
    LET final == CrfCurr(matrix, Len(matrix))
        best == {s \in 0 .. (nstate - 1) :
                    \A u \in 1 .. nstate : final[u] <= final[s + 1]}
        last == CHOOSE s \in best : \A u \in best : s <= u
    IN  [score |-> final[last + 1],
         path |-> CrfPath(matrix, Len(matrix), <<last>>)]

\* lib.crfpath_to_basecall(path, nblock, p_pos): the first npos entries that
\* are not the blank state, as letters
lib_crfpath_to_basecall(path, npos) ==
    LET keep == SelectSeq(SubSeq(path, 1, npos), LAMBDA s : s < NBASE)
    IN  [i \in DOMAIN keep |-> base_lookup[keep[i] + 1]]

\* _decode_post_crf
_decode_post_crf(matrix) ==
    LET d == decode_crf(matrix)
    IN  [path |-> d.path, score |-> d.score,
         call |-> lib_crfpath_to_basecall(d.path, Len(matrix))]

NoResult == [curr |-> << >>, full |-> << >>, path |-> << >>, call |-> << >>]

CrfIdle ==
    /\ crf_pc = "idle"
    /\ crf_post = << >>
    /\ crf_np = << >>
    /\ crf_c = NoResult
    /\ crf_py = NoResult

\* post = calc_post(raw, 'rnnrf_r94'): per block one entry that is not zero,
\* or none
CrfInit ==
    /\ crf_pc = "post"
    /\ \E nblk \in 1 .. MaxBlk :
       \E to \in [1 .. nblk -> ScoreStates] :
       \E from \in [1 .. nblk -> ScoreStates] :
       \E val \in [1 .. nblk -> ScoreVals \cup {0}] :
          /\ \A b \in 1 .. nblk : val[b] = 0 => (to[b] = 0 /\ from[b] = 0)
          /\ crf_post = [b \in 1 .. nblk |->
                NativeColumn((to[b] * nstate) + from[b], val[b])]
    /\ crf_np = << >>
    /\ crf_c = NoResult
    /\ crf_py = NoResult

\* seq_c,_,_ = decode_post(post, model)
CrfDecodeNative ==
    /\ crf_pc = "post"
    /\ LET d == _decode_post_crf(crf_post)
       IN  crf_c' = [curr |-> << >>, full |-> d.path,
                     path |-> SubSeq(d.path, 1, Len(crf_post)),
                     call |-> d.call]
    /\ crf_pc' = "decoded"
    /\ UNCHANGED <<crf_post, crf_np, crf_py>>
    /\ UNCHANGED notCrf

\* post.data(as_numpy=True)
CrfExport ==
    /\ crf_pc = "decoded"
    /\ crf_np' = _scrappie_to_numpy(crf_post, TRUE)
    /\ crf_pc' = "exported"
    /\ UNCHANGED <<crf_post, crf_c, crf_py>>
    /\ UNCHANGED notCrf

\* seq = decode_post_python(...)
CrfDecodePython ==
    /\ crf_pc = "exported"
    /\ crf_py' = decode_post_python(crf_np)
    /\ crf_pc' = "python"
    /\ UNCHANGED <<crf_post, crf_np, crf_c>>
    /\ UNCHANGED notCrf

\* assert seq == seq_c; return seq
CrfAssert ==
    /\ crf_pc = "python"
    /\ crf_pc' = IF crf_py.call = crf_c.call THEN "returned"
                 ELSE "AssertionError"
    /\ UNCHANGED <<crf_post, crf_np, crf_c, crf_py>>
    /\ UNCHANGED notCrf

CrfNext == CrfDecodeNative \/ CrfExport \/ CrfDecodePython \/ CrfAssert

CpIdle == cp_path = << >> /\ cp_call = <<"idle">>

\* a path over the states 0 .. nstate - 1
CpInit ==
    /\ \E n \in 0 .. MaxPathLen :
          cp_path \in [1 .. n -> 0 .. (nstate - 1)]
    /\ cp_call = <<"none">>

CpCall ==
    /\ cp_call = <<"none">>
    /\ cp_call' = crfpath_to_basecall(cp_path)
    /\ UNCHANGED cp_path
    /\ UNCHANGED notCp

CpNext == CpCall

(***************************************************************************)
(* map_post_to_sequence                                                    *)
(***************************************************************************)
\* blocks of the posterior, positions of the sequence, the scalar band
MaxMapBlock == 2

MaxSeq == 1

MaxBand == 1

NoBands == [kind |-> "none", b |-> 0, seq |-> << >>]

\* bands=None, an int, or a sequence of arrays of non-negative integers
\* (which np.uintp holds unchanged) with one entry per block
BandArgs(nblock, seq_len) ==
    {NoBands}
    \cup {[kind |-> "int", b |-> b, seq |-> << >>] : b \in 0 .. MaxBand}
    \cup {[kind |-> "seq", b |-> 0, seq |-> <<lo, hi>>] :
            lo \in [1 .. nblock -> 0 .. (seq_len + 1)],
            hi \in [1 .. nblock -> 0 .. (seq_len + 1)]}
    \cup {[kind |-> "seq", b |-> 0, seq |-> s] :
            s \in {<< >>, <<[i \in 1 .. nblock |-> 0]>>,
                   <<[i \in 1 .. nblock |-> 0], [i \in 1 .. nblock |-> 0],
                     [i \in 1 .. nblock |-> 0]>>}}

\* what the library makes of the arguments: whether post is a
\* ScrappyMatrix, its state count is in the table, the sequence encodes,
\* and the alignment routine returns a score; at most one of them fails
MapFaults ==
    {<<TRUE, TRUE, TRUE, TRUE>>, <<FALSE, TRUE, TRUE, TRUE>>,
     <<TRUE, FALSE, TRUE, TRUE>>, <<TRUE, TRUE, FALSE, TRUE>>,
     <<TRUE, TRUE, TRUE, FALSE>>}

MapArgs(p, v, f, nb, sl, bd) ==
    [path |-> p, viterbi |-> v, is_matrix |-> f[1], known_nstate |-> f[2],
     encodable |-> f[3], scored |-> f[4], nblock |-> nb, seq_len |-> sl,
     bands |-> bd]

\* lib.are_bounds_sane(p_poslow, p_poshigh, nblock, seq_len):
\* low[i] <= high[i] <= seq_len for every block, both non-decreasing
are_bounds_sane(low, high, nblock, seq_len) ==
    /\ \A i \in 1 .. nblock : low[i] <= high[i] /\ high[i] <= seq_len
    /\ \A i \in 1 .. (nblock - 1) :
          low[i] <= low[i + 1] /\ high[i] <= high[i + 1]

\* floor of num / den for num >= 0, as the conversion to np.uintp truncates
FloorDiv(num, den) == num \div den

\* seq_len / nblock is a float64: exact when the quotient is a dyadic
\* fraction (nblock <= 2^nblock), rounded otherwise
Representable(seq_len, nblock) ==
    \E k \in 0 .. nblock : (seq_len * (2 ^ k)) % nblock = 0

\* np.array(x, dtype=np.uintp) of the float that stands for num / den > 0:
\* the floor, or one less where num / den is an integer and the rounded
\* float fell just below it (down)
FloatTrunc(num, den, down) ==
    IF down /\ num % den = 0 THEN FloorDiv(num, den) - 1
    ELSE FloorDiv(num, den)

\* the ways the floats of one band can round: per block and bound, whether
\* the float fell below the exact value; none where gradient is exact, and
\* for bands = 0 both bounds are the same float x * gradient
Roundings(b, nblock, seq_len) ==
    IF Representable(seq_len, nblock)
    THEN {<<[i \in 1 .. nblock |-> FALSE], [i \in 1 .. nblock |-> FALSE]>>}
    ELSE {r \in [1 .. nblock -> BOOLEAN] \X [1 .. nblock -> BOOLEAN] :
            b = 0 => r[1] = r[2]}

\* the band without the min against seq_len
DiagonalBand_unclamped(b, nblock, seq_len, r) ==
    <<[i \in 1 .. nblock |->
         IF ((i - 1) - b) * seq_len <= 0 THEN 0
         ELSE FloatTrunc(((i - 1) - b) * seq_len, nblock, r[1][i])],
      [i \in 1 .. nblock |->
         IF ((i - 1) + b) * seq_len <= 0 THEN 0
         ELSE FloatTrunc(((i - 1) + b) * seq_len, nblock, r[2][i])]>>

\* the diagonal band of a scalar: gradient = seq_len / nblock,
\* hband = bands * gradient, and per block x the positions
\* max(0, x * gradient - hband) and min(seq_len, x * gradient + hband),
\* under the rounding r of the floats
DiagonalBand(b, nblock, seq_len, r) ==
    <<[i \in 1 .. nblock |->
         IF ((i - 1) - b) * seq_len <= 0 THEN 0
         ELSE FloatTrunc(((i - 1) - b) * seq_len, nblock, r[1][i])],
      [i \in 1 .. nblock |->
         IF ((i - 1) + b) * seq_len <= 0 THEN 0
         ELSE IF ((i - 1) + b) * seq_len > seq_len * nblock THEN seq_len
         ELSE FloatTrunc(((i - 1) + b) * seq_len, nblock, r[2][i])]>>

BoundsRejected_never(sane) == FALSE

\* if not lib.are_bounds_sane(...): raise ValueError
BoundsRejected(sane) == ~sane

MapIdle ==
    /\ map_pc = "idle"
    /\ map_args = MapArgs(FALSE, FALSE, <<TRUE, TRUE, TRUE, TRUE>>, 1, 0,
                          NoBands)
    /\ map_bands = NoBands
    /\ map_trace = << >>
    /\ map_res = "none"
    /\ map_best = << >>
    /\ path_data = << >>

\* the positions a Viterbi alignment gives the blocks: one of the seq_len
\* positions of the sequence, or -1 for a block outside the alignment
BestPaths(nblock, seq_len) == [1 .. nblock -> -1 .. (seq_len - 1)]

WantPath_viterbi(viterbi, path) == viterbi

\* if viterbi and path:
WantPath(viterbi, path) == viterbi /\ path

\* path_data = np.zeros(nblock, dtype=np.int32), or None (no entry here)
NewPathData(viterbi, path, nblock) ==
    IF WantPath(viterbi, path) THEN <<[i \in 1 .. nblock |-> 0]>> ELSE << >>

\* what a Viterbi routine given p_path leaves in path_data: its best path,
\* unless p_path is NULL
WritePath(data, best) == IF data = << >> THEN data ELSE <<best>>

MapInit ==
    /\ map_pc = "called"
    /\ \E p \in BOOLEAN, v \in BOOLEAN, f \in MapFaults :
       \E nb \in 1 .. MaxMapBlock, sl \in 0 .. MaxSeq :
       \E bd \in BandArgs(nb, sl) :
          map_args = MapArgs(p, v, f, nb, sl, bd)
    /\ map_bands = map_args.bands
    /\ map_trace = << >>
    /\ map_res = "none"
    /\ map_best \in IF WantPath(map_args.viterbi, map_args.path)
                       /\ map_args.is_matrix /\ map_args.known_nstate
                       /\ map_args.encodable
                    THEN BestPaths(map_args.nblock, map_args.seq_len)
                    ELSE {<< >>}
    /\ path_data = << >>

MapRaise(err) ==
    /\ map_pc' = "done"
    /\ map_res' = err

\* the checks of the arguments, up to guess_state_properties
MapCheckArgs ==
    /\ map_pc = "called"
    /\ IF map_args.path /\ ~map_args.viterbi
          THEN MapRaise("ValueError: path without viterbi")
          ELSE IF ~map_args.is_matrix
                  THEN MapRaise("TypeError: post")
                  ELSE IF ~map_args.known_nstate
                          THEN MapRaise("KeyError: nstate")
                          ELSE map_pc' = "encode" /\ map_res' = map_res
    /\ UNCHANGED <<map_args, map_bands, map_trace, map_best, path_data>>
    /\ UNCHANGED notMap

\* p_seq = lib.encode_bases_to_integers(...), then path_data and p_path
MapEncode ==
    /\ map_pc = "encode"
    /\ map_trace' = Append(map_trace, "encode_bases_to_integers")
    /\ IF ~map_args.encodable
          THEN MapRaise("RuntimeError: encoding")
          ELSE map_pc' = "bands" /\ map_res' = map_res
    /\ path_data' = IF ~map_args.encodable THEN path_data
                    ELSE NewPathData(map_args.viterbi, map_args.path,
                                     map_args.nblock)
    /\ UNCHANGED <<map_args, map_bands, map_best>>
    /\ UNCHANGED notMap

\* if bands is None: the full DP matrix
MapUnbanded ==
    /\ map_pc = "bands"
    /\ map_bands.kind = "none"
    /\ map_trace' = Append(map_trace,
                           IF map_args.viterbi THEN "map_to_sequence_viterbi"
                           ELSE "map_to_sequence_forward")
    /\ path_data' = IF map_args.viterbi THEN WritePath(path_data, map_best)
                    ELSE path_data
    /\ map_pc' = "score"
    /\ UNCHANGED <<map_args, map_bands, map_res, map_best>>
    /\ UNCHANGED notMap

\* if isinstance(bands, int): create a monotonic diagonal band
MapBandScalar ==
    /\ map_pc = "bands"
    /\ map_bands.kind = "int"
    /\ \E r \in Roundings(map_bands.b, map_args.nblock, map_args.seq_len) :
          map_bands' = [kind |-> "seq", b |-> 0,
                        seq |-> DiagonalBand(map_bands.b, map_args.nblock,
                                             map_args.seq_len, r)]
    /\ map_pc' = "sane"
    /\ UNCHANGED <<map_args, map_trace, map_res, map_best, path_data>>
    /\ UNCHANGED notMap

\* elif len(bands) == 2: the two arrays as np.uintp
MapBandPair ==
    /\ map_pc = "bands"
    /\ map_bands.kind = "seq"
    /\ Len(map_bands.seq) = 2
    /\ map_pc' = "sane"
    /\ UNCHANGED <<map_args, map_bands, map_trace, map_res, map_best, path_data>>
    /\ UNCHANGED notMap

\* else: raise ValueError
MapBandOther ==
    /\ map_pc = "bands"
    /\ map_bands.kind = "seq"
    /\ Len(map_bands.seq) # 2
    /\ MapRaise("ValueError: bands")
    /\ UNCHANGED <<map_args, map_bands, map_trace, map_best, path_data>>
    /\ UNCHANGED notMap

\* if not lib.are_bounds_sane(p_poslow, p_poshigh, nblock, seq_len)
MapSane ==
    /\ map_pc = "sane"
    /\ map_trace' = Append(map_trace, "are_bounds_sane")
    /\ IF BoundsRejected(are_bounds_sane(map_bands.seq[1], map_bands.seq[2],
                                         map_args.nblock, map_args.seq_len))
          THEN MapRaise("ValueError: banding")
          ELSE map_pc' = "banded" /\ map_res' = map_res
    /\ UNCHANGED <<map_args, map_bands, map_best, path_data>>
    /\ UNCHANGED notMap

\* score = func(...), the banded Viterbi or the banded forward routine
MapBanded ==
    /\ map_pc = "banded"
    /\ map_trace' = Append(map_trace,
                           IF map_args.viterbi
                              THEN "map_to_sequence_viterbi_banded"
                              ELSE "map_to_sequence_forward_banded")
    /\ map_pc' = "score"
    /\ UNCHANGED <<map_args, map_bands, map_res, map_best, path_data>>
    /\ UNCHANGED notMap

\* score = _none_if_null(score); return score, path_data
MapReturn ==
    /\ map_pc = "score"
    /\ map_pc' = "done"
    /\ map_res' = IF map_args.scored THEN "ok" ELSE "RuntimeError: alignment"
    /\ UNCHANGED <<map_args, map_bands, map_trace, map_best, path_data>>
    /\ UNCHANGED notMap

MapNext ==
    \/ MapCheckArgs
    \/ MapEncode
    \/ MapUnbanded
    \/ MapBandScalar
    \/ MapBandPair
    \/ MapBandOther
    \/ MapSane
    \/ MapBanded
    \/ MapReturn

(***************************************************************************)
(* _raw_gen, _basecall                                                     *)
(***************************************************************************)
\* files on the command line and --threads
MaxReads == 3

MaxThreads == 2

\* what happens to a read: basecall_raw returns, basecall_raw raises
\* (calc_post, decode_post), or _raw_gen cannot read the file
ReadKinds == {"ok", "fail", "unreadable"}

\* the first file of the list from position i on that _raw_gen raises at,
\* one past the list if there is none
RECURSIVE _raw_gen(_, _)
_raw_gen(filelist, i) ==
    IF i > Len(filelist) THEN i
    ELSE IF filelist[i] = "unreadable" THEN i
         ELSE _raw_gen(filelist, i + 1)

Running(fs) == {i \in DOMAIN fs : fs[i] = "running"}

Pending(fs) == {i \in DOMAIN fs : fs[i] = "pending"}

\* the finally of the result iterator of Executor.map: future.cancel() on
\* every future, which takes back the ones that have not started
Cancel(fs) == [i \in DOMAIN fs |-> IF fs[i] = "pending" THEN "cancelled"
                                    ELSE fs[i]]

\* a printed record: the file name of a read and the read the basecall
\* printed with it was computed from
Record(fname, result) == [fname |-> fname, result |-> result]

TakenResults(out) == {out[i].result : i \in DOMAIN out}

ResultOf_completed(fs, next, out) ==
    LET d == {i \in DOMAIN fs : fs[i] = "done" /\ i \notin TakenResults(out)}
    IN  IF d = {} THEN next ELSE CHOOSE i \in d : \A j \in d : j <= i

\* the results of Executor.map come in the order the calls were submitted,
\* which is the order of datas
ResultOf(fs, next, out) == next

BtIdle ==
    /\ reads = << >>
    /\ threads = 0
    /\ bt_pc = "idle"
    /\ bt_next = 0
    /\ futures = << >>
    /\ printed = << >>
    /\ bt_err = "none"

\* args = parser.parse_args(): threads is None (0 here) or a number
BtInit ==
    /\ \E n \in 1 .. MaxReads : reads \in [1 .. n -> ReadKinds]
    /\ threads \in 0 .. MaxThreads
    /\ bt_pc = IF threads = 0 THEN "loop" ELSE "map"
    /\ bt_next = 1
    /\ futures = [i \in DOMAIN reads |-> "none"]
    /\ printed = << >>
    /\ bt_err = "none"

\* for fname, data in _raw_gen(args.fast5): the generator raises
SeqReadError ==
    /\ bt_pc = "loop"
    /\ bt_next <= Len(reads)
    /\ reads[bt_next] = "unreadable"
    /\ bt_pc' = "ended"
    /\ bt_err' = "RuntimeError: read"
    /\ UNCHANGED <<reads, threads, bt_next, futures, printed>>
    /\ UNCHANGED notBt

\* seq, score, _, start, end, _ = worker(data); print(...)
SeqPrint ==
    /\ bt_pc = "loop"
    /\ bt_next <= Len(reads)
    /\ reads[bt_next] = "ok"
    /\ printed' = Append(printed, Record(bt_next, bt_next))
    /\ bt_next' = bt_next + 1
    /\ UNCHANGED <<reads, threads, bt_pc, futures, bt_err>>
    /\ UNCHANGED notBt

\* worker(data) raises: nothing in _basecall catches it
SeqWorkerError ==
    /\ bt_pc = "loop"
    /\ bt_next <= Len(reads)
    /\ reads[bt_next] = "fail"
    /\ bt_pc' = "ended"
    /\ bt_err' = "worker error"
    /\ UNCHANGED <<reads, threads, bt_next, futures, printed>>
    /\ UNCHANGED notBt

\* the generator is exhausted
SeqEnd ==
    /\ bt_pc = "loop"
    /\ bt_next > Len(reads)
    /\ bt_pc' = "ended"
    /\ bt_err' = "ok"
    /\ UNCHANGED <<reads, threads, bt_next, futures, printed>>
    /\ UNCHANGED notBt

\* results = executor.map(worker, datas): one future per read, submitted
\* while the generator is consumed; if the generator raises, the error
\* leaves the with block, which waits for the futures submitted so far
PoolMap ==
    /\ bt_pc = "map"
    /\ futures' = [i \in DOMAIN reads |->
                     IF i < _raw_gen(reads, 1) THEN "pending" ELSE "none"]
    /\ bt_pc' = IF _raw_gen(reads, 1) > Len(reads) THEN "results"
                ELSE "shutdown"
    /\ bt_err' = IF _raw_gen(reads, 1) > Len(reads) THEN bt_err
                 ELSE "RuntimeError: read"
    /\ UNCHANGED <<reads, threads, bt_next, printed>>
    /\ UNCHANGED notBt

\* a free worker takes the oldest future of the work queue
PoolStart ==
    /\ Pending(futures) # {}
    /\ Cardinality(Running(futures)) < threads
    /\ \E i \in Pending(futures) :
          /\ \A j \in Pending(futures) : i <= j
          /\ futures' = [futures EXCEPT ![i] = "running"]
    /\ UNCHANGED <<reads, threads, bt_pc, bt_next, printed, bt_err>>
    /\ UNCHANGED notBt

\* basecall_raw returns or raises in its worker
PoolFinish ==
    /\ \E i \in Running(futures) :
          futures' = [futures EXCEPT
                        ![i] = IF reads[i] = "ok" THEN "done" ELSE "failed"]
    /\ UNCHANGED <<reads, threads, bt_pc, bt_next, printed, bt_err>>
    /\ UNCHANGED notBt

\* for fname, (...) in zip(fnames, results): print(...), in input order
PoolPrint ==
    /\ bt_pc = "results"
    /\ bt_next <= Len(reads)
    /\ futures[ResultOf(futures, bt_next, printed)] = "done"
    /\ printed' = Append(printed,
                         Record(bt_next,
                                ResultOf(futures, bt_next, printed)))
    /\ bt_next' = bt_next + 1
    /\ UNCHANGED <<reads, threads, bt_pc, futures, bt_err>>
    /\ UNCHANGED notBt

\* the result of a failed future re-raises the worker's exception in the
\* loop; the iterator cancels the futures that have not started
PoolWorkerError ==
    /\ bt_pc = "results"
    /\ bt_next <= Len(reads)
    /\ futures[bt_next] = "failed"
    /\ futures' = Cancel(futures)
    /\ bt_pc' = "shutdown"
    /\ bt_err' = "worker error"
    /\ UNCHANGED <<reads, threads, bt_next, printed>>
    /\ UNCHANGED notBt

\* every result has been printed
PoolEnd ==
    /\ bt_pc = "results"
    /\ bt_next > Len(reads)
    /\ bt_pc' = "shutdown"
    /\ bt_err' = "ok"
    /\ UNCHANGED <<reads, threads, bt_next, futures, printed>>
    /\ UNCHANGED notBt

\* leaving the with block: executor.shutdown(wait=True)
PoolShutdown ==
    /\ bt_pc = "shutdown"
    /\ Pending(futures) = {}
    /\ Running(futures) = {}
    /\ bt_pc' = "ended"
    /\ UNCHANGED <<reads, threads, bt_next, futures, printed, bt_err>>
    /\ UNCHANGED notBt

BtNext ==
    \/ SeqReadError
    \/ SeqPrint
    \/ SeqWorkerError
    \/ SeqEnd
    \/ PoolMap
    \/ PoolStart
    \/ PoolFinish
    \/ PoolPrint
    \/ PoolWorkerError
    \/ PoolEnd
    \/ PoolShutdown

(***************************************************************************)
(* The library calls of calc_post, decode_post, sequence_to_squiggle,       *)
(* map_post_to_sequence and basecall_raw, and what the operations do with   *)
(* a NULL result                                                            *)
(***************************************************************************)
ModelNames == {"rgrgr_r94", "rnnrf_r94", "unknown"}

\* _decoders_: the decoder of a model, as the library routine that turns
\* its path into the basecall string
Decoder(model) ==
    IF model = "rnnrf_r94" THEN "crfpath_to_basecall" ELSE "overlapper"

\* a step: the library routine called, what the code does with its result
\* ("raise": _none_if_null and raise on None; "string": ffi.string(result);
\* "numpy": handed to _scrappie_to_numpy and _free_matrix unchecked), and
\* whether the result is then wrapped in a ScrappyMatrix
LibStep(fn, with, wrap) == [fn |-> fn, with |-> with, wrap |-> wrap]

\* matrix = _none_if_null(network(...)); return ScrappyMatrix(matrix)
calc_post(model) ==
    IF model = "unknown" THEN << >>
    ELSE <<LibStep("network", "raise", TRUE)>>

\* basecall = lib.overlapper(...) or lib.crfpath_to_basecall(...);
\* return ffi.string(basecall).decode(), score, pos
decode_post(model) ==
    IF model = "unknown" THEN << >>
    ELSE <<LibStep(Decoder(model), "string", FALSE)>>

\* seq = _none_if_null(lib.encode_bases_to_integers(...)), then
\* squiggle = _none_if_null(squiggle_model(...)); ScrappyMatrix(squiggle)
sequence_to_squiggle(model) ==
    <<LibStep("encode_bases_to_integers", "raise", FALSE)>>
    \o (IF model = "unknown" THEN << >>
        ELSE <<LibStep("squiggle_model", "raise", TRUE)>>)

\* p_seq = _none_if_null(lib.encode_bases_to_integers(...)); the alignment
\* routines return a float
map_post_to_sequence == <<LibStep("encode_bases_to_integers", "raise", FALSE)>>

\* if with_base_probs: base_post = lib.posterior_crf(post.data());
\* _scrappie_to_numpy(base_post, sloika=False); _free_matrix(base_post)
BaseProbs(with_base_probs) ==
    IF with_base_probs THEN <<LibStep("posterior_crf", "numpy", FALSE)>>
    ELSE << >>

\* basecall_raw: calc_post, decode_post, then the base probabilities
basecall_raw(model, with_base_probs) ==
    IF model = "unknown" THEN << >>
    ELSE calc_post(model) \o decode_post(model) \o BaseProbs(with_base_probs)

\* the operations: their steps and, when the model is not in the table the
\* operation looks it up in, the KeyError that ends them after the steps
Op(name, model, with_base_probs, steps) ==
    [name |-> name, model |-> model, with_base_probs |-> with_base_probs,
     steps |-> steps]

Ops ==
    {Op("calc_post", mdl, FALSE, calc_post(mdl)) : mdl \in ModelNames}
    \cup {Op("decode_post", mdl, FALSE, decode_post(mdl)) : mdl \in ModelNames}
    \cup {Op("sequence_to_squiggle", mdl, FALSE, sequence_to_squiggle(mdl)) :
            mdl \in {"squiggle_r94", "unknown"}}
    \cup {Op("map_post_to_sequence", "none", FALSE, map_post_to_sequence)}
    \cup {Op("basecall_raw", mdl, w, basecall_raw(mdl, w)) :
            mdl \in ModelNames, w \in BOOLEAN}

NlIdle ==
    /\ nl_op = Op("none", "none", FALSE, << >>)
    /\ nl_pc = "idle"
    /\ nl_step = 0
    /\ nl_ptr = "none"
    /\ nl_nulls = {}
    /\ nl_wrapped = {}
    /\ nl_nulluse = {}
    /\ nl_res = "none"

NlInit ==
    /\ nl_op \in Ops
    /\ nl_pc = "call"
    /\ nl_step = 1
    /\ nl_ptr = "none"
    /\ nl_nulls = {}
    /\ nl_wrapped = {}
    /\ nl_nulluse = {}
    /\ nl_res = "none"

NlFrame == <<nl_op, nl_step>>

\* the library routine of the step returns a pointer or NULL
NlLibCall ==
    /\ nl_pc = "call"
    /\ nl_step <= Len(nl_op.steps)
    /\ \E r \in {"pointer", "NULL"} :
          /\ nl_ptr' = r
          /\ nl_nulls' = IF r = "NULL"
                            THEN nl_nulls \cup {nl_op.steps[nl_step].fn}
                            ELSE nl_nulls
    /\ nl_pc' = "result"
    /\ UNCHANGED <<NlFrame, nl_wrapped, nl_nulluse, nl_res>>
    /\ UNCHANGED notNl

\* if x is None: raise RuntimeError(...), and ffi.string(NULL), which
\* raises RuntimeError
NlRaise ==
    /\ nl_pc = "result"
    /\ nl_op.steps[nl_step].with \in {"raise", "string"}
    /\ nl_ptr = "NULL"
    /\ nl_pc' = "done"
    /\ nl_res' = "RuntimeError"
    /\ UNCHANGED <<NlFrame, nl_ptr, nl_nulls, nl_wrapped, nl_nulluse>>
    /\ UNCHANGED notNl

\* the result is not NULL and goes on; it is wrapped in a ScrappyMatrix
\* where the step says so
NlGoOn ==
    /\ nl_pc = "result"
    /\ nl_ptr # "NULL"
    /\ nl_wrapped' = IF nl_op.steps[nl_step].wrap
                        THEN nl_wrapped \cup {nl_ptr} ELSE nl_wrapped
    /\ nl_step' = nl_step + 1
    /\ nl_pc' = "call"
    /\ UNCHANGED <<nl_op, nl_ptr, nl_nulls, nl_nulluse, nl_res>>
    /\ UNCHANGED notNl

\* _scrappie_to_numpy(NULL) reads matrix.data.f through the NULL pointer:
\* the process dies, or the read goes through and _free_matrix(NULL) and
\* the rest of the operation follow
NlNullRead ==
    /\ nl_pc = "result"
    /\ nl_op.steps[nl_step].with = "numpy"
    /\ nl_ptr = "NULL"
    /\ \E dies \in BOOLEAN :
          /\ nl_nulluse' = IF dies THEN nl_nulluse \cup {"_scrappie_to_numpy"}
                           ELSE nl_nulluse
                                \cup {"_scrappie_to_numpy", "_free_matrix"}
          /\ nl_pc' = IF dies THEN "done" ELSE "call"
          /\ nl_res' = IF dies THEN "crash" ELSE nl_res
          /\ nl_step' = IF dies THEN nl_step ELSE nl_step + 1
    /\ UNCHANGED <<nl_op, nl_ptr, nl_nulls, nl_wrapped>>
    /\ UNCHANGED notNl

\* the steps are done: the KeyError of the model lookup, or the return
NlReturn ==
    /\ nl_pc = "call"
    /\ nl_step > Len(nl_op.steps)
    /\ nl_pc' = "done"
    /\ nl_res' = IF nl_op.model = "unknown" THEN "KeyError" ELSE "returned"
    /\ UNCHANGED <<NlFrame, nl_ptr, nl_nulls, nl_wrapped, nl_nulluse>>
    /\ UNCHANGED notNl

NlNext ==
    \/ NlLibCall
    \/ NlRaise
    \/ NlGoOn
    \/ NlNullRead
    \/ NlReturn

(***************************************************************************)
(* ScrappyMatrixView.__init__ on one slice                                  *)
(***************************************************************************)
\* columns and rows of the object sliced
MaxViewCols == 3

MaxViewRows == 2

\* slice.start, slice.stop and slice.step: None or an integer
ViewSlices ==
    [start : Opt((0 - MaxViewCols) .. (MaxViewCols + 1)),
     stop : Opt((0 - MaxViewCols) .. (MaxViewCols + 1)),
     step : Opt({1, 2})]

\* start = slice.start if slice.start is not None else 0
SliceStart(sl) == IF sl.start = << >> THEN 0 ELSE sl.start[1]

\* stop = slice.stop if slice.stop is not None else n_elems
SliceStop(sl, n_elems) == IF sl.stop = << >> THEN n_elems ELSE sl.stop[1]

\* shape of the view: (nc, nr) of the struct copied from the parent, with
\* nc = stop - start
ViewShape(parent, sl) ==
    <<ViewOf(parent, sl).nc, parent.nr>>

VwIdle ==
    /\ vw_parent = [kind |-> "none", live |-> FALSE, buf |-> 0, off |-> 0,
                    nc |-> 0, nr |-> 0]
    /\ vw_slice = [start |-> << >>, stop |-> << >>, step |-> << >>]
    /\ vw_res = "idle"
    /\ vw_view = << >>

\* a matrix, or a view made earlier, and a slice
VwInit ==
    /\ \E k \in {"matrix", "view"}, cols \in 1 .. MaxViewCols,
          rows \in 1 .. MaxViewRows, off \in 0 .. 1 :
          /\ k = "matrix" => off = 0
          /\ vw_parent = [kind |-> k, live |-> TRUE, buf |-> 1, off |-> off,
                          nc |-> cols, nr |-> rows]
    /\ vw_slice \in ViewSlices
    /\ vw_res = "none"
    /\ vw_view = << >>

\* ScrappyMatrixView(self, slice)
VwSlice ==
    /\ vw_res = "none"
    /\ vw_res' = SliceCheck(vw_parent.nc, vw_slice)
    /\ vw_view' = IF SliceCheck(vw_parent.nc, vw_slice) = "ok"
                     THEN <<[view |-> ViewOf(vw_parent, vw_slice),
                             shape |-> ViewShape(vw_parent, vw_slice)]>>
                     ELSE << >>
    /\ UNCHANGED <<vw_parent, vw_slice>>
    /\ UNCHANGED notVw

VwNext == VwSlice

(***************************************************************************)
(* The diagonal band map_post_to_sequence makes of a scalar                 *)
(***************************************************************************)
\* the scalar, the blocks of the posterior, the positions of the sequence
MaxDiagBand == 3

MaxDiagBlock == 5

MaxDiagSeq == 7

DgIdle ==
    /\ dg_args = [bands |-> 0, nblock |-> 1, seq_len |-> 0]
    /\ dg_band = <<"idle">>

DgInit ==
    /\ dg_args \in [bands : 0 .. MaxDiagBand, nblock : 1 .. MaxDiagBlock,
                    seq_len : 0 .. MaxDiagSeq]
    /\ dg_band = << >>

\* if isinstance(bands, int): bands = [lower, upper] as np.uintp
DgDerive ==
    /\ dg_band = << >>
    /\ \E r \in Roundings(dg_args.bands, dg_args.nblock, dg_args.seq_len) :
          dg_band' = DiagonalBand(dg_args.bands, dg_args.nblock,
                                  dg_args.seq_len, r)
    /\ UNCHANGED dg_args
    /\ UNCHANGED notDg

DgNext == DgDerive

(***************************************************************************)
(* Specifications                                                          *)
(***************************************************************************)
InitGsp ==
    GspInit /\ RawIdle /\ MatIdle /\ CrfIdle /\ CpIdle /\ MapIdle /\ BtIdle
    /\ NlIdle /\ VwIdle /\ DgIdle

SpecGsp == InitGsp /\ [][GspNext]_vars

InitRaw ==
    RawInit /\ GspIdle /\ MatIdle /\ CrfIdle /\ CpIdle /\ MapIdle /\ BtIdle
    /\ NlIdle /\ VwIdle /\ DgIdle

SpecRaw == InitRaw /\ [][RawNext]_vars

InitRetrim ==
    RetrimInit /\ GspIdle /\ MatIdle /\ CrfIdle /\ CpIdle /\ MapIdle /\ BtIdle
    /\ NlIdle /\ VwIdle /\ DgIdle

SpecRetrim == InitRetrim /\ [][RetrimNext]_vars

InitMat ==
    MatInit /\ GspIdle /\ RawIdle /\ CrfIdle /\ CpIdle /\ MapIdle /\ BtIdle
    /\ NlIdle /\ VwIdle /\ DgIdle

SpecMat == InitMat /\ [][MatNext]_vars

InitCrf ==
    CrfInit /\ GspIdle /\ RawIdle /\ MatIdle /\ CpIdle /\ MapIdle /\ BtIdle
    /\ NlIdle /\ VwIdle /\ DgIdle

SpecCrf == InitCrf /\ [][CrfNext]_vars

InitCp ==
    CpInit /\ GspIdle /\ RawIdle /\ MatIdle /\ CrfIdle /\ MapIdle /\ BtIdle
    /\ NlIdle /\ VwIdle /\ DgIdle

SpecCp == InitCp /\ [][CpNext]_vars

InitMap ==
    MapInit /\ GspIdle /\ RawIdle /\ MatIdle /\ CrfIdle /\ CpIdle /\ BtIdle
    /\ NlIdle /\ VwIdle /\ DgIdle

SpecMap == InitMap /\ [][MapNext]_vars

InitBt ==
    BtInit /\ GspIdle /\ RawIdle /\ MatIdle /\ CrfIdle /\ CpIdle /\ MapIdle
    /\ NlIdle /\ VwIdle /\ DgIdle

SpecBt == InitBt /\ [][BtNext]_vars

InitNl ==
    NlInit /\ GspIdle /\ RawIdle /\ MatIdle /\ CrfIdle /\ CpIdle /\ MapIdle
    /\ BtIdle /\ VwIdle /\ DgIdle

SpecNl == InitNl /\ [][NlNext]_vars

InitVw ==
    VwInit /\ GspIdle /\ RawIdle /\ MatIdle /\ CrfIdle /\ CpIdle /\ MapIdle
    /\ BtIdle /\ NlIdle /\ DgIdle

SpecVw == InitVw /\ [][VwNext]_vars

InitDg ==
    DgInit /\ GspIdle /\ RawIdle /\ MatIdle /\ CrfIdle /\ CpIdle /\ MapIdle
    /\ BtIdle /\ NlIdle /\ VwIdle

SpecDg == InitDg /\ [][DgNext]_vars

(***************************************************************************)
(* Claims                                                                  *)
(***************************************************************************)
\* C1: the table is built without a collision (36 distinct keys, the assert
\* passes), and a lookup of stateCount returns exactly (a,k) when
\* stateCount - 1 = a^k for a pair with a in 4..7 and k in 1..9, and fails
\* with an error for every other stateCount.
C1_TableLookup ==
    /\ gsp_pc # "AssertionError"
    /\ gsp_pc = "ready" => Cardinality(DOMAIN state_lookup) = 36
    /\ gsp_ret # "none" =>
        /\ \A a \in 4 .. 7, k \in 1 .. 9 :
              gsp_nstate = (a ^ k) + 1 => gsp_ret = <<a, k>>
        /\ (\A a \in 4 .. 7, k \in 1 .. 9 : gsp_nstate # (a ^ k) + 1)
              => gsp_ret = "KeyError"
        /\ gsp_nstate = 1025 => gsp_ret = <<4, 5>>
        /\ gsp_nstate = 16385 => gsp_ret = <<4, 7>>

C1_Witness ==
    /\ gsp_pc = "ready"
    /\ gsp_nstate = 16385
    /\ gsp_ret = <<4, 7>>

C1_WitnessError ==
    /\ gsp_pc = "ready"
    /\ gsp_nstate = 1026
    /\ gsp_ret = "KeyError"

\* the last operation was a trim that repeated, argument for argument, the
\* trim before it
Retrimmed == raw_op.op = "trim" /\ raw_same

Window(r) == <<r.start, r.end>>

\* C2 as stated: trimming is idempotent, a second trim with the identical
\* arguments leaves the window start and end of the trimmed table unchanged.
C2_TrimIdempotent == Retrimmed => Window(rt) = Window(raw_before)

\* C2 as amended: a second trim with the identical (non-negative) guards
\* leaves the empty window (0,0) unchanged; a non-empty window shrinks inside
\* itself or collapses to (0,0), and it never stays as it was when one of
\* the guards is positive.
C2_RetrimShrinks ==
    Retrimmed =>
        /\ Window(raw_before) = <<0, 0>> => Window(rt) = <<0, 0>>
        /\ raw_before.start < raw_before.end =>
            /\ \/ Window(rt) = <<0, 0>>
               \/ /\ raw_before.start <= rt.start
                  /\ rt.start < rt.end
                  /\ rt.end <= raw_before.end
            /\ (raw_op.start > 0 \/ raw_op.end > 0)
                  => Window(rt) # Window(raw_before)

C2_Witness ==
    /\ Retrimmed
    /\ raw_before.start < raw_before.end
    /\ raw_op.start > 0
    /\ rt.start < rt.end
    /\ rt.start >= raw_before.start + raw_op.start

C2_WitnessEmpty ==
    /\ Retrimmed
    /\ Window(raw_before) = <<0, 0>>
    /\ rt.n > 0

\* C3: the window of a table created with 0 <= start <= end <= n satisfies
\* 0 <= start <= end <= n after every sequence of trims (guards >= 0) and
\* scales; after a trim it is non-empty or exactly (0,0), the latter whenever
\* the guarded start is not below the guarded end.
C3_WindowInvariant ==
    /\ 0 <= rt.start
    /\ rt.start <= rt.end
    /\ rt.end <= rt.n
    /\ raw_op.op = "trim" =>
        /\ rt.start < rt.end \/ Window(rt) = <<0, 0>>
        /\ LET g == TrimGuards(trim_raw_by_mad(raw_before, raw_op.chunk,
                                               raw_op.thresh),
                               raw_op.start, raw_op.end)
           IN  g.start >= g.end => Window(rt) = <<0, 0>>

C3_Witness ==
    /\ raw_op.op = "trim"
    /\ raw_before.start < raw_before.end
    /\ raw_before.start > 0
    /\ Window(rt) = <<0, 0>>

\* C4: scale changes only samples with start <= index < end; every other
\* sample, start, end and n are as before (nothing changes on the empty
\* window).
C4_ScaleFrame ==
    raw_op.op = "scale" =>
        /\ rt.n = raw_before.n
        /\ Window(rt) = Window(raw_before)
        /\ Len(rt.raw) = Len(raw_before.raw)
        /\ \A i \in DOMAIN raw_before.raw :
              (i <= rt.start \/ i > rt.end) => rt.raw[i] = raw_before.raw[i]
        /\ rt.start = rt.end => rt.raw = raw_before.raw

C4_Witness ==
    /\ raw_op.op = "scale"
    /\ 0 < rt.start
    /\ rt.start < rt.end
    /\ rt.end < rt.n
    /\ \E i \in (rt.start + 1) .. rt.end : rt.raw[i] # raw_before.raw[i]

\* C5: a view never outlives its parent buffer: no live ScrappyMatrixView
\* has a buffer that the disposal of the owning ScrappyMatrix has released.
C5_NoViewOfFreedBuffer ==
    \A o \in 1 .. MaxObj :
        (objs[o].kind = "view" /\ objs[o].live)
            => bufs[objs[o].buf].state # "freed"

\* every object the caller held is collected and no basecall_raw is running
AllDisposed == bc.pc = "idle" /\ \A o \in 1 .. MaxObj : ~objs[o].live

NativeOrder(matrix) == [blk \in DOMAIN matrix |-> SubSeq(matrix[blk], 1, nr)]

CrfDone == crf_pc \in {"returned", "AssertionError"}

\* C7: on the matrix exported stay-first, the reordering of decode_post_python
\* restores the native order, its forward pass ends with the maximum of the
\* recurrence, and its state path and basecall are those of the primary
\* decoder on the native matrix, so that the assertion of
\* basecall_raw_python never fails.
C7_ReferenceDecoder ==
    CrfDone =>
        /\ post_reordered(crf_np) = NativeOrder(crf_post)
        /\ crf_py.curr = CrfCurr(crf_post, Len(crf_post))
        /\ crf_py.full = crf_c.full
        /\ crf_py.path = crf_c.path
        /\ crf_py.call = crf_c.call
        /\ crf_pc # "AssertionError"

\* a two-block matrix decoded by both, with a base called and a path that
\* ends in another state than the one it starts in
C7_Witness ==
    /\ crf_pc = "returned"
    /\ Len(crf_post) = 2
    /\ Len(crf_py.call) >= 1
    /\ crf_py.full[1] # crf_py.full[3]
    /\ crf_py.full[3] # 0

Blank(path) == \A i \in DOMAIN path : path[i] = NBASE

Alternating(path) ==
    /\ Len(path) % 2 = 0
    /\ \A i \in DOMAIN path : (path[i] = NBASE) <=> (i % 2 = 0)

NonBlank(path) == SelectSeq(path, LAMBDA b : b < NBASE)

\* C8: crfpath_to_basecall returns the entries of the path below 4, in
\* order, as the letters A, C, G, T, repeated bases not merged: nothing for
\* an all-blank path, the N bases of an alternating path of length 2N.
C8_PathToBasecall ==
    cp_call # <<"none">> =>
        /\ Len(cp_call) = Len(NonBlank(cp_path))
        /\ \A i \in DOMAIN cp_call :
              cp_call[i] = base_lookup[NonBlank(cp_path)[i] + 1]
        /\ Blank(cp_path) => cp_call = << >>
        /\ Alternating(cp_path) =>
              cp_call = [i \in 1 .. (Len(cp_path) \div 2) |->
                            base_lookup[cp_path[(2 * i) - 1] + 1]]

\* an alternating path of length 4 that repeats its base
C8_Witness ==
    /\ cp_path = <<2, 4, 2, 4>>
    /\ cp_call = <<"G", "G">>

\* an all-blank path
C8_WitnessBlank ==
    /\ cp_path = <<4, 4, 4>>
    /\ cp_call = << >>


BandedRoutines ==
    {"map_to_sequence_viterbi_banded", "map_to_sequence_forward_banded"}

DPRoutines ==
    BandedRoutines \cup {"map_to_sequence_viterbi", "map_to_sequence_forward"}

DPCalled == \E i \in DOMAIN map_trace : map_trace[i] \in DPRoutines

\* an explicit lower/upper pair that is malformed
MalformedPair ==
    /\ map_args.bands.kind = "seq"
    /\ Len(map_args.bands.seq) = 2
    /\ ~are_bounds_sane(map_args.bands.seq[1], map_args.bands.seq[2],
                        map_args.nblock, map_args.seq_len)

\* a band argument that is neither None, an integer, nor of length 2
OtherBands ==
    /\ map_args.bands.kind = "seq"
    /\ Len(map_args.bands.seq) # 2

\* the checks of map_post_to_sequence that come before the band is looked at
EarlierChecksPass ==
    /\ ~(map_args.path /\ ~map_args.viterbi)
    /\ map_args.is_matrix
    /\ map_args.known_nstate
    /\ map_args.encodable

\* a banded routine is only ever called after are_bounds_sane accepted the
\* band the routine is given
ValidatedBeforeDP ==
    \A i \in DOMAIN map_trace :
        map_trace[i] \in BandedRoutines =>
            /\ i > 1
            /\ map_trace[i - 1] = "are_bounds_sane"
            /\ are_bounds_sane(map_bands.seq[1], map_bands.seq[2],
                               map_args.nblock, map_args.seq_len)

\* C9 as stated: with a band supplied, a malformed pair always ends the call
\* with the invalid-banding error, a band argument of another shape with the
\* error for that, and no DP routine is called.
C9_MalformedFailsInvalidBanding ==
    map_pc = "done" =>
        /\ ValidatedBeforeDP
        /\ MalformedPair =>
              map_res = "ValueError: banding" /\ ~DPCalled
        /\ OtherBands =>
              map_res = "ValueError: bands" /\ ~DPCalled

\* C9, amended: with a band supplied, no banded routine is called before
\* are_bounds_sane accepted the band and no unbanded routine is called at
\* all; a malformed pair or a band argument of another shape ends the call
\* with an error and without any DP routine called, and that error is the
\* invalid-banding error (or the error for the shape) whenever the earlier
\* checks of the arguments and the encoding of the sequence pass.
C9_BandCheckedBeforeDP ==
    /\ ValidatedBeforeDP
    /\ map_args.bands.kind # "none" =>
          \A i \in DOMAIN map_trace :
              map_trace[i] \in DPRoutines => map_trace[i] \in BandedRoutines
    /\ (MalformedPair \/ OtherBands) => ~DPCalled
    /\ (map_pc = "done" /\ MalformedPair) =>
          /\ map_res \notin {"ok", "none"}
          /\ EarlierChecksPass => map_res = "ValueError: banding"
    /\ (map_pc = "done" /\ OtherBands) =>
          /\ map_res \notin {"ok", "none"}
          /\ EarlierChecksPass => map_res = "ValueError: bands"

\* a two-block pair with lowerBound above upperBound, rejected after the
\* sequence was encoded and the band checked, no DP routine called
C9_Witness ==
    /\ map_pc = "done"
    /\ map_args.nblock = 2
    /\ map_args.bands.kind = "seq"
    /\ Len(map_args.bands.seq) = 2
    /\ map_args.bands.seq[1][2] > map_args.bands.seq[2][2]
    /\ map_res = "ValueError: banding"
    /\ map_trace = <<"encode_bases_to_integers", "are_bounds_sane">>

\* a scalar band, checked and then used by the banded Viterbi routine
C9_WitnessScalar ==
    /\ map_pc = "done"
    /\ map_args.bands.kind = "int"
    /\ map_res = "ok"
    /\ map_trace = <<"encode_bases_to_integers", "are_bounds_sane",
                     "map_to_sequence_viterbi_banded">>

\* a malformed pair in a call that an earlier check ends
C9_WitnessEarlier ==
    /\ map_pc = "done"
    /\ MalformedPair
    /\ map_res = "RuntimeError: encoding"


Printed == {printed[i].result : i \in DOMAIN printed}

\* a batch all of whose files _raw_gen can read
Readable == \A i \in DOMAIN reads : reads[i] # "unreadable"

\* C10: when the batch has ended, in the sequential and in the pool mode,
\* every read whose worker did not fail has been printed, whatever
\* happened to the other reads.
C10_FailureNeverEndsBatch ==
    (bt_pc = "ended" /\ Readable) =>
        \A i \in DOMAIN reads : reads[i] = "ok" => i \in Printed


Returned == map_pc = "done" /\ map_res = "ok"

PathReturned == Returned /\ path_data # << >>

\* a call with path set and viterbi unset ends with the error for that
\* before any library routine is called, and a call returns a path only
\* when viterbi and path are both set
PathOnlyWithViterbi ==
    /\ (map_pc = "done" /\ map_args.path /\ ~map_args.viterbi) =>
          map_res = "ValueError: path without viterbi" /\ map_trace = << >>
    /\ Returned =>
          (path_data # << >> <=> (map_args.viterbi /\ map_args.path))
    /\ PathReturned => Len(path_data[1]) = map_args.nblock

\* C11 as stated: a path requested without viterbi is rejected before any
\* alignment work, a path is returned only when viterbi and path are both
\* set, and a returned path is the best path of the Viterbi aligner, one
\* position per block, with bands none and with an explicit band.
C11_ReturnedPathIsBest ==
    /\ PathOnlyWithViterbi
    /\ (PathReturned /\ map_args.bands.kind \in {"none", "seq"}) =>
          path_data[1] = map_best

\* C11, amended: as above, but a returned path is the best path of the
\* Viterbi aligner only with bands none; with a band (explicit or scalar)
\* the banded routine is not given the path buffer and the path returned
\* is the array of zeros path_data was created as.
C11_PathWrittenOnlyUnbanded ==
    /\ PathOnlyWithViterbi
    /\ (PathReturned /\ map_args.bands.kind = "none") =>
          path_data[1] = map_best
    /\ (PathReturned /\ map_args.bands.kind # "none") =>
          path_data[1] = [i \in 1 .. map_args.nblock |-> 0]

\* an unbanded Viterbi call over two blocks that returns the aligner's
\* path, which is not the array of zeros
C11_Witness ==
    /\ PathReturned
    /\ map_args.bands.kind = "none"
    /\ map_args.nblock = 2
    /\ path_data[1] = map_best
    /\ map_best[2] # 0

\* a banded Viterbi call that returns zeros where the aligner's path is not
C11_WitnessBanded ==
    /\ PathReturned
    /\ map_args.bands.kind = "seq"
    /\ map_best # path_data[1]


TypedErrors == {"RuntimeError", "KeyError", "ValueError", "TypeError"}

\* C12: when an operation has ended and a library call made inside it
\* returned NULL, the operation raised a typed error; and no ScrappyMatrix
\* wraps a NULL handle, and no NULL matrix is converted to an array or
\* freed.
C12_NullNeverObserved ==
    /\ (nl_pc = "done" /\ nl_nulls # {}) => nl_res \in TypedErrors
    /\ "NULL" \notin nl_wrapped
    /\ nl_nulluse = {}


VwStart == SliceStart(vw_slice)

VwStop == SliceStop(vw_slice, vw_parent.nc)

\* a slice the claim wants rejected: a step other than 1, start above stop,
\* or an index outside 0 .. n
BadSlice ==
    \/ vw_slice.step \notin {<< >>, <<1>>}
    \/ VwStart > VwStop
    \/ VwStart < 0
    \/ VwStart > vw_parent.nc
    \/ VwStop < 0
    \/ VwStop > vw_parent.nc

\* C13: a view that has been created covers columns start .. stop - 1 with
\* 0 <= start <= stop <= n of its parent, starts start columns into the
\* parent, and has length stop - start and the parent's row count; a slice
\* with a step other than 1, with start > stop or with an index outside the
\* parent ends in an error and makes no view.
C13_ViewInsideParent ==
    vw_res \notin {"idle", "none"} =>
        /\ vw_view # << >> =>
              /\ 0 <= VwStart
              /\ VwStart <= VwStop
              /\ VwStop <= vw_parent.nc
              /\ vw_view[1].view.off = vw_parent.off + VwStart
              /\ vw_view[1].shape = <<VwStop - VwStart, vw_parent.nr>>
        /\ BadSlice =>
              vw_res \in {"ValueError", "IndexError"} /\ vw_view = << >>


AllSucceed == \A i \in DOMAIN reads : reads[i] = "ok"

\* what the sequential loop prints for reads that all succeed: one record
\* per read, in the order of the list, each name with its own read's result
InOrder(n) == [i \in 1 .. n |-> Record(i, i)]

\* C14: with every read succeeding, whatever the number of workers and the
\* order they finish in, what has been printed is at every moment the
\* first records of the input list in order, each file name with the
\* result of its own read, and when the batch has ended it is one record
\* per read: the output of the sequential mode.
C14_PoolOutputInOrder ==
    AllSucceed =>
        /\ printed = InOrder(Len(printed))
        /\ bt_pc = "ended" =>
              bt_err = "ok" /\ printed = InOrder(Len(reads))

\* a pool of two workers has printed three reads
C14_Witness ==
    /\ AllSucceed
    /\ threads = 2
    /\ Len(reads) = 3
    /\ bt_pc = "ended"
    /\ printed = InOrder(3)

\* the second read finishes while the first is still running and nothing
\* has been printed
C14_WitnessOutOfOrder ==
    /\ AllSucceed
    /\ threads = 2
    /\ Len(reads) >= 2
    /\ futures[1] = "running"
    /\ futures[2] = "done"
    /\ printed = << >>

\* the sequential mode on the same three reads
C14_WitnessSequential ==
    /\ AllSucceed
    /\ threads = 0
    /\ Len(reads) = 3
    /\ bt_pc = "ended"
    /\ printed = InOrder(3)


DgDerived == Len(dg_band) = 2

\* C15: the band made of a scalar b >= 0 for nblock >= 1 blocks and a
\* sequence of seq_len >= 0 positions has one lower and one upper bound per
\* block, both non-decreasing, lower[0] = 0, and
\* lower[i] <= upper[i] <= seq_len for every block.
C15_DiagonalBandInvariant ==
    DgDerived =>
        /\ Len(dg_band[1]) = dg_args.nblock
        /\ Len(dg_band[2]) = dg_args.nblock
        /\ dg_band[1][1] = 0
        /\ \A i \in 1 .. dg_args.nblock :
              /\ dg_band[1][i] <= dg_band[2][i]
              /\ dg_band[2][i] <= dg_args.seq_len
        /\ \A i \in 1 .. (dg_args.nblock - 1) :
              /\ dg_band[1][i] <= dg_band[1][i + 1]
              /\ dg_band[2][i] <= dg_band[2][i + 1]

\* bands = 2 over five blocks and seven positions: the lower bound leaves
\* 0, the upper bound of the fourth block is the float 6.999... truncated
\* to 6, and the last block is cut to seq_len
C15_Witness ==
    /\ DgDerived
    /\ dg_args = [bands |-> 2, nblock |-> 5, seq_len |-> 7]
    /\ dg_band[1] = [i \in 1 .. 5 |-> <<0, 0, 0, 1, 2>>[i]]
    /\ dg_band[2] = [i \in 1 .. 5 |-> <<2, 4, 5, 6, 7>>[i]]

\* a band whose gradient is exact: every bound is the exact floor
C15_WitnessExact ==
    /\ DgDerived
    /\ dg_args = [bands |-> 1, nblock |-> 4, seq_len |-> 6]
    /\ dg_band[1] = [i \in 1 .. 4 |-> <<0, 0, 1, 3>>[i]]
    /\ dg_band[2] = [i \in 1 .. 4 |-> <<1, 3, 4, 6>>[i]]

====
